---- MODULE Spec2Model ----
(***************************************************************************)
(* A model of the housing dataset notebooks.                               *)
(*                                                                         *)
(*   tiered notebook (legacy schema):  housing_config maps tier names to   *)
(*     rule-sets whose values are range strings "min-max" or lists;        *)
(*     generate_housing_df builds the dataset one row at a time.           *)
(*   flat notebook (explicit-tag schema): housing_config maps columns to   *)
(*     tables with a type field; generate_housing_data_df builds the       *)
(*     dataset one column at a time.                                       *)
(*                                                                         *)
(* Strings that the code parses are sequences of one-character strings.    *)
(* Python dicts are sequences of [name, value] entries (insertion order).  *)
(* The random module's generator is a stream of raw numbers: a call of     *)
(* _randbelow(n) turns the next raw number r into r % n.                   *)
(***************************************************************************)
EXTENDS Integers, Sequences, FiniteSets, TLC

VARIABLES
    pc,             \* position of the notebook run
    variant,        \* "tiered" or "flat": which notebook is running
    housing_config, \* the loaded configuration (a sequence of entries)
    n,              \* row_size / sample_size of the builder call
    df_rows,        \* generate_housing_df: rows appended so far
    df_cols,        \* generate_housing_data_df: columns built so far
    tier_log,       \* history: index of the tier chosen for each row of df_rows
    drawn,          \* history: the values generated by the last loop iteration
    df,             \* the notebook's global df
    csv,            \* the text written by to_csv
    err,            \* the exception that ended the run, "" if none
    seeded,         \* TRUE when random.seed(s) was called before each run
    py_stream,      \* raw numbers the seeded random module has produced
    py_pos,         \* how many of them the current run has consumed
    run,            \* 1 in the first run of the builder cell, 2 in the re-run
    df_first,       \* the dataset of the first run (kept for the comparison)
    lost_iters,     \* history: loop iterations completed when the builder raised
    draw_log,       \* history: the (row, attribute) of every value, in draw order
    db_df,          \* sqlite notebook: its global df (read_csv, then market_id)
    database,       \* sqlite notebook: the content of data/housing.db
    query_results,  \* sqlite notebook: what fetchall() returned
    teardown_log,   \* history: the drop_tables calls of the last teardown cell
    teardowns,      \* how many times the teardown cell ran in this notebook run
    nb_run,         \* 1 in the first run of the sqlite notebook, 2 in the second
    db_first        \* the database the first run of the sqlite notebook left

\* the state of the sqlite notebook
dbvars == <<db_df, database, query_results, teardown_log, teardowns, nb_run,
            db_first>>

\* the state of the generator notebooks, the position and the exception apart
genvars == <<variant, housing_config, n, df_rows, df_cols, tier_log, drawn, df,
             csv, seeded, py_stream, py_pos, run, df_first, lost_iters, draw_log>>

vars == <<pc, err, genvars, dbvars>>

----------------------------------------------------------------------------
(* Bounds of the model *)

\* largest row_size / sample_size passed to a builder
MaxRows == 2

\* raw numbers of the random stream are 0 .. RawMax-1
RawMax == 3

\* the normal sample is mean + sd*z for an integer z in -MaxZ .. MaxZ
MaxZ == 2

\* most data lines in the file the sqlite notebook reads
MaxCsvRows == 2

\* the estate_agent_code values of that file are 1 .. MaxCode
MaxCode == 6

----------------------------------------------------------------------------
(* Program constants *)

\* get_randint_from_range_str: "rand_int if rand_int <= 100000"
RoundAbove == 100000

\* round(x, -3): the rounding unit 10^3
Thousand == 1000

\* pd.read_csv("data/housing-data.csv")[:20]
RowLimit == 20

----------------------------------------------------------------------------
(* Values: Python scalars as they appear in a row or a TOML list.          *)
(* kind is "int", "float" (an integral float64), "bool", "str" (s holds    *)
(* its characters), "none" (Python None) or "nan" (the cell pandas fills   *)
(* in for a missing key).                                                  *)

IntV(x) == [kind |-> "int", i |-> x, s |-> <<>>]
FloatV(x) == [kind |-> "float", i |-> x, s |-> <<>>]
BoolV(b) == [kind |-> "bool", i |-> IF b THEN 1 ELSE 0, s |-> <<>>]
StrV(x) == [kind |-> "str", i |-> 0, s |-> x]
NoneV == [kind |-> "none", i |-> 0, s |-> <<>>]
NaNV == [kind |-> "nan", i |-> 0, s |-> <<>>]

Range(seq) == {seq[k] : k \in 1..Len(seq)}

Names(entries) == [k \in 1..Len(entries) |-> entries[k].name]

Min2(a, b) == IF a <= b THEN a ELSE b
Max2(a, b) == IF a >= b THEN a ELSE b

----------------------------------------------------------------------------
(* str.split("-") and int(...) on character sequences *)

DigitChars == <<"0", "1", "2", "3", "4", "5", "6", "7", "8", "9">>

IsDigit(c) == \E d \in 1..10 : DigitChars[d] = c

DigitVal(c) == (CHOOSE d \in 1..10 : DigitChars[d] = c) - 1

\* int(s) succeeds on a non-empty run of digits (the alphabet of the model
\* is the digits, "-" and the letter "x")
IsIntLiteral(s) == Len(s) > 0 /\ \A k \in 1..Len(s) : IsDigit(s[k])

RECURSIVE ParseInt(_)
ParseInt(s) ==
    IF Len(s) = 0 THEN 0
    ELSE 10 * ParseInt(SubSeq(s, 1, Len(s) - 1)) + DigitVal(s[Len(s)])

\* decimal text of a natural number
RECURSIVE IntToStr(_)
IntToStr(x) ==
    IF x < 10 THEN <<DigitChars[x + 1]>>
    ELSE IntToStr(x \div 10) \o <<DigitChars[(x % 10) + 1]>>

\* s.split(sep): the pieces between the separators, empty pieces included
RECURSIVE SplitFrom(_, _, _)
SplitFrom(s, sep, cur) ==
    IF Len(s) = 0 THEN <<cur>>
    ELSE IF Head(s) = sep THEN <<cur>> \o SplitFrom(Tail(s), sep, <<>>)
    ELSE SplitFrom(Tail(s), sep, Append(cur, Head(s)))

Split(s, sep) == SplitFrom(s, sep, <<>>)

RECURSIVE SeqMin(_)
SeqMin(q) == IF Len(q) = 1 THEN q[1] ELSE Min2(q[1], SeqMin(Tail(q)))

RECURSIVE SeqMax(_)
SeqMax(q) == IF Len(q) = 1 THEN q[1] ELSE Max2(q[1], SeqMax(Tail(q)))

----------------------------------------------------------------------------
(* The random primitives *)

Raw == 0..(RawMax - 1)

\* Random._randbelow(k) on the raw number r: a number in 0 .. k-1
RandBelow(k, r) == r % k

\* random.randint(a, b) on the raw number r (a <= b)
RandInt(a, b, r) == a + RandBelow(b - a + 1, r)

\* random.choice(seq) on the raw number r (seq not empty)
ChoiceOffByOne(seq, r) ==
    IF RandBelow(Len(seq) + 1, r) = Len(seq) THEN NoneV
    ELSE seq[RandBelow(Len(seq) + 1, r) + 1]

Choice(seq, r) == seq[RandBelow(Len(seq), r) + 1]

\* Python's round(x, -3) on an int: nearest multiple of 1000, ties to the
\* multiple whose thousands count is even
RoundThousandsDown(x) == (x \div Thousand) * Thousand

RoundThousandsHalfUp(x) == ((x + (Thousand \div 2)) \div Thousand) * Thousand

RoundThousands(x) ==
    LET q == x \div Thousand
        r == x % Thousand
    IN  IF 2 * r < Thousand THEN q * Thousand
        ELSE IF 2 * r > Thousand THEN (q + 1) * Thousand
        ELSE IF q % 2 = 0 THEN q * Thousand
        ELSE (q + 1) * Thousand

----------------------------------------------------------------------------
(* Configuration values as tomli.load returns them.                        *)
(* t is the Python type of the value: "str" (s holds the characters),      *)
(* "list" (l holds the elements), "int" (i), or "dict" (a TOML table:      *)
(* keys holds the keys present, and type/min/max/mean/sd/l their values).  *)

CfgBlank ==
    [t |-> "", s |-> <<>>, l |-> <<>>, i |-> 0, keys |-> {}, type |-> "",
     min |-> 0, max |-> 0, mean |-> 0, sd |-> 0]

CfgStr(chars) == [CfgBlank EXCEPT !.t = "str", !.s = chars]
CfgList(elems) == [CfgBlank EXCEPT !.t = "list", !.l = elems]
CfgInt(x) == [CfgBlank EXCEPT !.t = "int", !.i = x]
CfgDict(keys, type) == [CfgBlank EXCEPT !.t = "dict", !.keys = keys, !.type = type]

\* the text "a-b"
RangeStr(a, b) == IntToStr(a) \o <<"-">> \o IntToStr(b)

Entry(name, value) == [name |-> name, value |-> value]

----------------------------------------------------------------------------
(* One generated value, as the history variable drawn records it:          *)
(*   rule  "range" | "choice" | "bool" | "dist" | "other"                  *)
(*   src   "legacy" (tiered notebook) | "explicit" (flat notebook)         *)
(*   lo,hi the bounds handed to randint;  d the number drawn               *)
(*   list  the list handed to choice;     v the value returned            *)

Gen(name, rule, src, lo, hi, d, list, v) ==
    [name |-> name, rule |-> rule, src |-> src, lo |-> lo, hi |-> hi,
     d |-> d, list |-> list, v |-> v]

\* the result of a call: err is the exception raised ("" if none), used the
\* number of raw numbers taken from the random module's stream
Ret(e, used, gen) == [err |-> e, used |-> used, gen |-> gen]

NoGen == Gen("", "", "", 0, 0, 0, <<>>, NoneV)

Raise(e) == Ret(e, 0, NoGen)

----------------------------------------------------------------------------
(* Tiered notebook *)

\* "return rand_int if rand_int <= 100000 else round(rand_int, -3)"
RangePolicy(rand_int) ==
    IF rand_int <= RoundAbove THEN rand_int ELSE RoundThousands(rand_int)

\* the bounds taken in the order of the string: randint raises on "b-a"
get_randint_in_written_order(name, range_str, r) ==
    LET parts == Split(range_str, "-")
    IN  IF \E k \in 1..Len(parts) : ~IsIntLiteral(parts[k])
        THEN Raise("ValueError")
        ELSE LET range_list == [k \in 1..Len(parts) |-> ParseInt(parts[k])]
                 min_value == range_list[1]
                 max_value == range_list[Len(range_list)]
             IN  IF min_value > max_value THEN Raise("ValueError")
                 ELSE LET rand_int == RandInt(min_value, max_value, r)
                      IN  Ret("", 1, Gen(name, "range", "legacy", min_value,
                                         max_value, rand_int, <<>>,
                                         IntV(RangePolicy(rand_int))))

get_randint_from_range_str(name, range_str, r) ==
    LET parts == Split(range_str, "-")
    IN  IF \E k \in 1..Len(parts) : ~IsIntLiteral(parts[k])
        THEN Raise("ValueError")
        ELSE LET range_list == [k \in 1..Len(parts) |-> ParseInt(parts[k])]
                 min_value == SeqMin(range_list)
                 max_value == SeqMax(range_list)
                 rand_int == RandInt(min_value, max_value, r)
             IN  Ret("", 1, Gen(name, "range", "legacy", min_value, max_value,
                                rand_int, <<>>, IntV(RangePolicy(rand_int))))

\* random.choice(tiers): the index of the tier chosen
get_random_tier_index(config, r) == RandBelow(Len(config), r) + 1

\* the loop of generate_one_row_random_house_data from attribute k on;
\* acc = [row, err, used, gens]
RECURSIVE RowFrom(_, _, _, _)
RowFrom(config, k, tape, acc) ==
    IF k > Len(config) \/ acc.err # "" THEN acc
    ELSE LET attr == config[k].name
             value == config[k].value
             next == tape[acc.used + 1]
         IN  IF value.t = "str"
             THEN LET g == get_randint_from_range_str(attr, value.s, next)
                  IN  IF g.err # "" THEN [acc EXCEPT !.err = g.err]
                      ELSE RowFrom(config, k + 1, tape,
                             [acc EXCEPT !.row = Append(@, Entry(attr, g.gen.v)),
                                         !.used = @ + 1,
                                         !.gens = Append(@, g.gen)])
             ELSE IF value.t = "list"
             THEN IF Len(value.l) = 0 THEN [acc EXCEPT !.err = "IndexError"]
                  ELSE LET v == Choice(value.l, next)
                       IN  RowFrom(config, k + 1, tape,
                             [acc EXCEPT !.row = Append(@, Entry(attr, v)),
                                         !.used = @ + 1,
                                         !.gens = Append(@,
                                            Gen(attr, "choice", "legacy", 0, 0, 0,
                                                value.l, v))])
             ELSE RowFrom(config, k + 1, tape, acc)

generate_one_row_random_house_data(config, tape) ==
    RowFrom(config, 1, tape, [row |-> <<>>, err |-> "", used |-> 0, gens |-> <<>>])

----------------------------------------------------------------------------
(* Flat notebook *)

\* int(round(sample_price, -3)) for the sample mean + sd*z
DistValueClamped(mean, sd, z) == Max2(0, RoundThousands(mean + sd * z))

DistValue(mean, sd, z) == RoundThousands(mean + sd * z)

build_random_housing_column_value(name, attribute, r, z) ==
    IF "type" \notin attribute.keys THEN Raise("KeyError")
    ELSE IF attribute.type = "min_max"
    THEN IF ~({"min", "max"} \subseteq attribute.keys) THEN Raise("KeyError")
         ELSE IF attribute.min > attribute.max THEN Raise("ValueError")
         ELSE LET d == RandInt(attribute.min, attribute.max, r)
              IN  Ret("", 1, Gen(name, "range", "explicit", attribute.min,
                                 attribute.max, d, <<>>, IntV(d)))
    ELSE IF attribute.type = "bool"
    THEN Ret("", 1, Gen(name, "bool", "explicit", 0, 0, 0,
                        <<BoolV(TRUE), BoolV(FALSE)>>,
                        Choice(<<BoolV(TRUE), BoolV(FALSE)>>, r)))
    ELSE IF attribute.type = "dist"
    THEN IF ~({"mean", "sd"} \subseteq attribute.keys) THEN Raise("KeyError")
         ELSE IF attribute.sd < 0 THEN Raise("ValueError")
         ELSE Ret("", 0, Gen(name, "dist", "explicit", 0, 0,
                             attribute.mean + attribute.sd * z, <<>>,
                             IntV(DistValue(attribute.mean, attribute.sd, z))))
    ELSE IF attribute.type = "list"
    THEN IF "list" \notin attribute.keys THEN Raise("KeyError")
         ELSE IF Len(attribute.l) = 0 THEN Raise("IndexError")
         ELSE Ret("", 1, Gen(name, "choice", "explicit", 0, 0, 0, attribute.l,
                             Choice(attribute.l, r)))
    ELSE Ret("", 0, Gen(name, "other", "explicit", 0, 0, 0, <<>>, NoneV))

\* "[build_random_housing_column_value(column_config) for i in range(0, sample_size)]"
\* from element i on; acc = [values, err, used, gens]
RECURSIVE ColumnFrom(_, _, _, _, _, _, _)
ColumnFrom(name, attribute, i, size, tape, zs, acc) ==
    IF i > size \/ acc.err # "" THEN acc
    ELSE LET g == build_random_housing_column_value(name, attribute,
                                                    tape[acc.used + 1], zs[i])
         IN  IF g.err # "" THEN [acc EXCEPT !.err = g.err]
             ELSE ColumnFrom(name, attribute, i + 1, size, tape, zs,
                    [acc EXCEPT !.values = Append(@, g.gen.v),
                                !.used = @ + g.used,
                                !.gens = Append(@, g.gen)])

----------------------------------------------------------------------------
(* pandas: DataFrame construction and to_csv.                              *)
(* A DataFrame is [defined, columns, rows]: rows[i][j] is the cell of row  *)
(* i in column columns[j].                                                 *)

NoDF == [defined |-> FALSE, columns |-> <<>>, rows |-> <<>>]

NoCsv == [written |-> FALSE, header |-> <<>>, lines |-> <<>>]

\* the keys of the dicts in order of first appearance
RECURSIVE AddNames(_, _)
AddNames(cols, names) ==
    IF Len(names) = 0 THEN cols
    ELSE AddNames(IF Head(names) \in Range(cols) THEN cols
                  ELSE Append(cols, Head(names)), Tail(names))

RECURSIVE ColumnsOf(_, _)
ColumnsOf(rows, cols) ==
    IF Len(rows) = 0 THEN cols
    ELSE ColumnsOf(Tail(rows), AddNames(cols, Names(Head(rows))))

\* row[c], NaN when the dict has no key c
Lookup(row, c) ==
    IF \E k \in 1..Len(row) : row[k].name = c
    THEN row[CHOOSE k \in 1..Len(row) : row[k].name = c].value
    ELSE NaNV

\* dtype inference: a column of ints with a missing cell becomes float64
ColumnIsFloat(rows, c) ==
    /\ \E i \in 1..Len(rows) : Lookup(rows[i], c).kind = "nan"
    /\ \A i \in 1..Len(rows) : Lookup(rows[i], c).kind \in {"int", "nan"}

Cell(rows, i, c) ==
    LET v == Lookup(rows[i], c)
    IN  IF v.kind = "int" /\ ColumnIsFloat(rows, c) THEN FloatV(v.i) ELSE v

\* pd.DataFrame(df_rows): one row per dict, also for dicts without keys
DataFrameFromRows(rows) ==
    LET cols == ColumnsOf(rows, <<>>)
    IN  [defined |-> TRUE,
         columns |-> cols,
         rows |-> [i \in 1..Len(rows) |->
                     [j \in 1..Len(cols) |-> Cell(rows, i, cols[j])]]]

\* pd.DataFrame(df_cols): the index is taken from the columns, so a dict
\* without columns gives a frame without rows
DataFrameFromCols(cols) ==
    LET size == IF Len(cols) = 0 THEN 0 ELSE Len(cols[1].value)
    IN  [defined |-> TRUE,
         columns |-> Names(cols),
         rows |-> [i \in 1..size |-> [j \in 1..Len(cols) |-> cols[j].value[i]]]]

IntText(x) == IF x < 0 THEN <<"-">> \o IntToStr(0 - x) ELSE IntToStr(x)

\* the text of a cell in the CSV
CellText(v) ==
    IF v.kind = "int" THEN IntText(v.i)
    ELSE IF v.kind = "float" THEN IntText(v.i) \o <<".", "0">>
    ELSE IF v.kind = "bool"
    THEN (IF v.i = 1 THEN <<"T", "r", "u", "e">> ELSE <<"F", "a", "l", "s", "e">>)
    ELSE IF v.kind = "str" THEN v.s
    ELSE <<>>

\* DataFrame.to_csv: the header line, then one line per row; with index =
\* True every line starts with the index field (its header is empty)
to_csv(frame, index) ==
    [written |-> TRUE,
     header |-> (IF index THEN <<"">> ELSE <<>>) \o frame.columns,
     lines |-> [i \in 1..Len(frame.rows) |->
                  (IF index THEN <<IntToStr(i - 1)>> ELSE <<>>)
                  \o [j \in 1..Len(frame.rows[i]) |-> CellText(frame.rows[i][j])]]]

----------------------------------------------------------------------------
(* The configuration files the model loads.                                *)

A == StrV(<<"A">>)
B == StrV(<<"B">>)

\* tiered notebook: [tier] sections of "min-max" strings and arrays
TieredTwoTiers ==
    <<Entry("tier-1", <<Entry("price", CfgStr(RangeStr(100499, 100501))),
                        Entry("bedrooms", CfgStr(RangeStr(1, 3)))>>),
      Entry("tier-2", <<Entry("price", CfgStr(RangeStr(101499, 101501))),
                        Entry("council_tax", CfgList(<<A, B>>))>>)>>

TieredThreshold ==
    <<Entry("tier-1", <<Entry("price", CfgStr(RangeStr(99999, 100001))),
                        Entry("freehold", CfgList(<<BoolV(TRUE), BoolV(FALSE)>>))>>)>>

\* bedrooms = 3: a value that is neither a string nor an array
TieredIntValue ==
    <<Entry("tier-1", <<Entry("bedrooms", CfgInt(3)),
                        Entry("council_tax", CfgList(<<A>>))>>)>>

\* price = { min = 1, max = 3 }: an inline table
TieredTableValue ==
    <<Entry("tier-1", <<Entry("price",
                              [CfgDict({"min", "max"}, "") EXCEPT !.min = 1, !.max = 3])>>)>>

TieredEmptyList == <<Entry("tier-1", <<Entry("garage", CfgList(<<>>))>>)>>

TieredReversed == <<Entry("tier-1", <<Entry("bedrooms", CfgStr(RangeStr(3, 1)))>>)>>

TieredMalformed ==
    <<Entry("tier-1", <<Entry("bedrooms", CfgStr(<<"1", "-", "x">>))>>)>>

TieredEmptyTier == <<Entry("tier-1", <<>>)>>

\* the second tier holds a list nothing can be chosen from
TieredSecondTierBad ==
    <<Entry("tier-1", <<Entry("bedrooms", CfgStr(RangeStr(1, 3)))>>),
      Entry("tier-2", <<Entry("garage", CfgList(<<>>))>>)>>

TieredConfigs ==
    {<<>>, TieredTwoTiers, TieredThreshold, TieredIntValue, TieredTableValue,
     TieredEmptyList, TieredReversed, TieredMalformed, TieredEmptyTier,
     TieredSecondTierBad}

\* flat notebook: one [column] table per attribute
MinMax(lo, hi) == [CfgDict({"type", "min", "max"}, "min_max") EXCEPT !.min = lo, !.max = hi]
Dist(m, s) == [CfgDict({"type", "mean", "sd"}, "dist") EXCEPT !.mean = m, !.sd = s]
List(elems) == [CfgDict({"type", "list"}, "list") EXCEPT !.l = elems]
Bool == CfgDict({"type"}, "bool")

FlatMain == <<Entry("price", Dist(1200, 900)), Entry("bedrooms", MinMax(1, 3))>>

FlatBigRange == <<Entry("area", MinMax(100499, 100501))>>

FlatChoice == <<Entry("garage", Bool), Entry("council_tax_band", List(<<A, B>>))>>

FlatNoMin == <<Entry("area", [MinMax(0, 300) EXCEPT !.keys = {"type", "max"}])>>

FlatNoMax == <<Entry("area", [MinMax(50, 0) EXCEPT !.keys = {"type", "min"}])>>

FlatNoMean == <<Entry("price", [Dist(0, 900) EXCEPT !.keys = {"type", "sd"}])>>

FlatNoSd == <<Entry("price", [Dist(1200, 0) EXCEPT !.keys = {"type", "mean"}])>>

FlatNoList == <<Entry("council_tax_band", CfgDict({"type"}, "list"))>>

FlatNoType ==
    <<Entry("bedrooms", [CfgDict({"min", "max"}, "") EXCEPT !.min = 1, !.max = 3])>>

\* type = "range": a tag the generator does not know
FlatUnknownTag ==
    <<Entry("bedrooms", [CfgDict({"type", "min", "max"}, "range")
                           EXCEPT !.min = 1, !.max = 3]),
      Entry("garage", Bool)>>

FlatEmptyList == <<Entry("council_tax_band", List(<<>>))>>

FlatReversed == <<Entry("bedrooms", MinMax(3, 1))>>

\* a price whose samples around zero are -1400, -500 and 400
FlatNearZero == <<Entry("price", Dist(400, 900))>>

\* the second column has no min
FlatSecondColumnBad ==
    <<Entry("bedrooms", MinMax(1, 3)),
      Entry("area", [MinMax(0, 300) EXCEPT !.keys = {"type", "max"}])>>

FlatConfigs ==
    {<<>>, FlatMain, FlatBigRange, FlatChoice, FlatNoMin, FlatNoMax, FlatNoMean,
     FlatNoSd, FlatNoList, FlatNoType, FlatUnknownTag, FlatEmptyList, FlatReversed,
     FlatSecondColumnBad, FlatNearZero}

\* the configurations of the seeded runs
SeededConfigs(v) == IF v = "tiered" THEN {TieredTwoTiers} ELSE {FlatMain, FlatChoice}

\* what open(...) hands to tomli.load: a text that parses to a table, or not
ConfigFiles(v, withSeed) ==
    {[parses |-> FALSE, table |-> <<>>]}
    \cup {[parses |-> TRUE, table |-> c] :
            c \in (IF withSeed THEN SeededConfigs(v)
                   ELSE IF v = "tiered" THEN TieredConfigs ELSE FlatConfigs)}

----------------------------------------------------------------------------
(* The random streams.                                                     *)
(* random.seed(s) puts the random module's generator at the start of the   *)
(* stream of seed s: py_stream holds the part of that stream seen so far,  *)
(* and a seeded run reads it from py_pos on.  numpy.random's generator is  *)
(* another object: random.seed does not touch it, so its samples are       *)
(* chosen freely.                                                          *)

\* the first `used` numbers of tape are the next numbers of the stream
FromStream(tape, used) ==
    seeded =>
        \A j \in 1..used :
            py_pos + j <= Len(py_stream) => tape[j] = py_stream[py_pos + j]

Consume(tape, used) ==
    IF seeded
    THEN /\ py_pos' = py_pos + used
         /\ py_stream' =
              IF py_pos + used > Len(py_stream)
              THEN py_stream \o SubSeq(tape, Len(py_stream) - py_pos + 1, used)
              ELSE py_stream
    ELSE UNCHANGED <<py_pos, py_stream>>

ZScores == (0 - MaxZ)..MaxZ

MaxLen(entries) ==
    IF Len(entries) = 0 THEN 0
    ELSE SeqMax([k \in 1..Len(entries) |-> Len(entries[k].value)])

\* the raw numbers a loop iteration may take from the random module
RowTapes == [1..(1 + MaxLen(housing_config)) -> Raw]

UsesRandom(attribute) == attribute.type \in {"min_max", "bool", "list"}

ColTapes(attribute) ==
    IF UsesRandom(attribute) THEN [1..n -> Raw] ELSE {[k \in 1..n |-> 0]}

ColZs(attribute) ==
    IF attribute.type = "dist" THEN [1..n -> ZScores] ELSE {[k \in 1..n |-> 0]}

----------------------------------------------------------------------------
(* pd.read_csv: the header names the columns, and every column gets the    *)
(* narrowest type all its cells parse as; an empty cell is a missing value.*)
(* (The texts of the model hold no fraction other than ".0" and none of    *)
(* the words pandas reads as a missing value.)                             *)

TrueText == <<"T", "r", "u", "e">>
FalseText == <<"F", "a", "l", "s", "e">>

IsSignedInt(t) ==
    IF Len(t) > 0 /\ Head(t) = "-" THEN IsIntLiteral(Tail(t)) ELSE IsIntLiteral(t)

ParseSignedInt(t) ==
    IF Head(t) = "-" THEN 0 - ParseInt(Tail(t)) ELSE ParseInt(t)

\* digits, a point, and the fraction 0
IsFloatText(t) ==
    /\ Len(t) > 2
    /\ SubSeq(t, Len(t) - 1, Len(t)) = <<".", "0">>
    /\ IsSignedInt(SubSeq(t, 1, Len(t) - 2))

\* the type the parser infers for a column from the texts of its cells
ColumnKind(texts) ==
    LET present == {k \in 1..Len(texts) : Len(texts[k]) > 0}
    IN  IF \A k \in present : IsSignedInt(texts[k])
        THEN (IF present = 1..Len(texts) THEN "int" ELSE "float")
        ELSE IF \A k \in present : IsSignedInt(texts[k]) \/ IsFloatText(texts[k])
        THEN "float"
        ELSE IF \A k \in present : texts[k] \in {TrueText, FalseText}
        THEN "bool"
        ELSE "str"

ParseCell(kind, t) ==
    IF Len(t) = 0 THEN NaNV
    ELSE IF kind = "int" THEN IntV(ParseSignedInt(t))
    ELSE IF kind = "float"
    THEN FloatV(ParseSignedInt(IF IsFloatText(t) THEN SubSeq(t, 1, Len(t) - 2)
                               ELSE t))
    ELSE IF kind = "bool" THEN BoolV(t = TrueText)
    ELSE StrV(t)

\* a file without a header field has no columns to parse
read_csv(text) ==
    IF Len(text.header) = 0
    THEN [err |-> "EmptyDataError", frame |-> NoDF]
    ELSE LET width == Len(text.header)
             texts(j) == [i \in 1..Len(text.lines) |-> text.lines[i][j]]
         IN  [err |-> "",
              frame |->
                [defined |-> TRUE,
                 columns |-> [j \in 1..width |->
                                IF text.header[j] = "" THEN "Unnamed: 0"
                                ELSE text.header[j]],
                 rows |-> [i \in 1..Len(text.lines) |->
                             [j \in 1..width |->
                                ParseCell(ColumnKind(texts(j)),
                                          text.lines[i][j])]]]]

\* frame[:limit]
HeadRows(frame, limit) ==
    [frame EXCEPT !.rows = SubSeq(@, 1, Min2(Len(@), limit))]

\* f"prop_{i}"
MarketIdAllZero(i) == <<"p", "r", "o", "p", "_">> \o IntToStr(0)

market_id(i) == <<"p", "r", "o", "p", "_">> \o IntToStr(i)

\* frame[name] = values: a new last column, or the column of that name replaced
SetColumn(frame, name, values) ==
    IF name \in Range(frame.columns)
    THEN LET j == CHOOSE k \in 1..Len(frame.columns) : frame.columns[k] = name
         IN  [frame EXCEPT !.rows = [i \in 1..Len(@) |->
                                       [@[i] EXCEPT ![j] = values[i]]]]
    ELSE [frame EXCEPT !.columns = Append(@, name),
                       !.rows = [i \in 1..Len(@) |-> Append(@[i], values[i])]]

\* df[name] of the i-th row (i from 1)
FrameCell(frame, i, name) ==
    frame.rows[i][CHOOSE k \in 1..Len(frame.columns) : frame.columns[k] = name]

----------------------------------------------------------------------------
(* The order of the draws.                                                 *)

\* generate_one_row_random_house_data: the values of row i, in key order
DrawsOfRowBackwards(i, gens) ==
    [k \in 1..Len(gens) |-> [row |-> 0 - i, name |-> gens[k].name]]

DrawsOfRow(i, gens) ==
    [k \in 1..Len(gens) |-> [row |-> i, name |-> gens[k].name]]

\* the list comprehension of generate_housing_data_df: the values of column
\* col for the rows 1 .. sample_size
DrawsOfColumn(col, gens) ==
    [i \in 1..Len(gens) |-> [row |-> i, name |-> col]]

----------------------------------------------------------------------------
(* The database file data/housing.db.                                      *)
(* tables is the set of tables that exist; housing_market and             *)
(* estate_agent_codes hold the rows of those tables (transport_codes never *)
(* gets a row).                                                            *)

EmptyDatabase ==
    [tables |-> {}, housing_market |-> <<>>, estate_agent_codes |-> <<>>]

\* the sqlite notebook has not run
NoDatabaseNotebook ==
    /\ db_df = NoDF
    /\ database = EmptyDatabase
    /\ query_results = <<>>
    /\ teardown_log = <<>>
    /\ teardowns = 0
    /\ nb_run = 1
    /\ db_first = EmptyDatabase

----------------------------------------------------------------------------
(* The notebook run *)

Init ==
    /\ pc = "start"
    /\ variant \in {"tiered", "flat"}
    /\ housing_config = <<>>
    /\ n = 0
    /\ df_rows = <<>>
    /\ df_cols = <<>>
    /\ tier_log = <<>>
    /\ drawn = <<>>
    /\ df = NoDF
    /\ csv = NoCsv
    /\ err = ""
    /\ seeded = FALSE
    /\ py_stream = <<>>
    /\ py_pos = 0
    /\ run = 1
    /\ df_first = NoDF
    /\ lost_iters = 0
    /\ draw_log = <<>>
    /\ NoDatabaseNotebook

\* the load cell: "housing_config = tomli.load(file_obj)", then
\* pprint.pprint(housing_config["tier-1"]) in the tiered notebook and
\* pprint.pprint(housing_config) in the flat notebook
LoadConfig ==
    /\ pc = "start"
    /\ \E file \in ConfigFiles(variant, seeded) :
         IF ~file.parses
         THEN /\ housing_config' = housing_config
              /\ pc' = "raised"
              /\ err' = "TOMLDecodeError"
         ELSE IF variant = "tiered" /\ "tier-1" \notin Range(Names(file.table))
         THEN /\ housing_config' = file.table
              /\ pc' = "raised"
              /\ err' = "KeyError"
         ELSE /\ housing_config' = file.table
              /\ pc' = "loaded"
              /\ err' = ""
    /\ UNCHANGED <<variant, n, df_rows, df_cols, tier_log, drawn, df, csv,
                   seeded, py_stream, py_pos, run, df_first, lost_iters,
                   draw_log, dbvars>>

\* the call of generate_housing_df / generate_housing_data_df, up to the loop
CallBuilder ==
    /\ pc = "loaded"
    /\ \E size \in 0..MaxRows : n' = size
    /\ pc' = "building"
    /\ df_rows' = <<>>
    /\ df_cols' = <<>>
    /\ tier_log' = <<>>
    /\ drawn' = <<>>
    /\ lost_iters' = 0
    /\ draw_log' = <<>>
    /\ UNCHANGED <<variant, housing_config, df, csv, err, seeded, py_stream,
                   py_pos, run, df_first, dbvars>>

\* the configuration after an iteration of a builder loop:
\* get_random_tier_config, generate_one_row_random_house_data and
\* build_random_housing_column_value index and iterate the dict they are
\* handed and assign only into new_row / df_cols
ConfigAfterDrawsPopped(config) ==
    IF Len(config) = 0 THEN config ELSE Tail(config)

ConfigAfterDraws(config) == config

\* an exception leaves the builder: its locals are gone, df is not assigned
RaisedKeepsPartial(e) ==
    /\ pc' = "raised"
    /\ err' = e
    /\ df_rows' = <<>>
    /\ df_cols' = <<>>
    /\ tier_log' = <<>>
    /\ drawn' = <<>>
    /\ df' = IF variant = "tiered" THEN DataFrameFromRows(df_rows)
             ELSE DataFrameFromCols(df_cols)
    /\ lost_iters' = Len(df_rows) + Len(df_cols)
    /\ draw_log' = draw_log

Raised(e) ==
    /\ pc' = "raised"
    /\ err' = e
    /\ df_rows' = <<>>
    /\ df_cols' = <<>>
    /\ tier_log' = <<>>
    /\ drawn' = <<>>
    /\ df' = df
    /\ lost_iters' = Len(df_rows) + Len(df_cols)
    /\ draw_log' = draw_log

\* one iteration of "for i in range(row_size)" in generate_housing_df
BuilderRow ==
    /\ pc = "building"
    /\ variant = "tiered"
    /\ Len(df_rows) < n
    /\ \E tape \in RowTapes :
         IF Len(housing_config) = 0
         THEN /\ Raised("IndexError")
              /\ UNCHANGED <<py_pos, py_stream>>
         ELSE LET t == get_random_tier_index(housing_config, tape[1])
                  tier_config == housing_config[t].value
                  res == generate_one_row_random_house_data(tier_config, Tail(tape))
              IN  /\ FromStream(tape, 1 + res.used)
                  /\ Consume(tape, 1 + res.used)
                  /\ IF res.err # ""
                     THEN Raised(res.err)
                     ELSE /\ df_rows' = Append(df_rows, res.row)
                          /\ tier_log' = Append(tier_log, t)
                          /\ drawn' = res.gens
                          /\ draw_log' = draw_log
                                \o DrawsOfRow(Len(df_rows) + 1, res.gens)
                          /\ UNCHANGED <<pc, err, df_cols, df, lost_iters>>
    /\ housing_config' = ConfigAfterDraws(housing_config)
    /\ UNCHANGED <<variant, n, csv, seeded, run, df_first, dbvars>>

\* one iteration of "for col in housing_config" in generate_housing_data_df
BuilderCol ==
    /\ pc = "building"
    /\ variant = "flat"
    /\ Len(df_cols) < Len(housing_config)
    /\ LET col == housing_config[Len(df_cols) + 1].name
           column_config == housing_config[Len(df_cols) + 1].value
       IN  \E tape \in ColTapes(column_config), zs \in ColZs(column_config) :
             LET res == ColumnFrom(col, column_config, 1, n, tape, zs,
                          [values |-> <<>>, err |-> "", used |-> 0, gens |-> <<>>])
             IN  /\ FromStream(tape, res.used)
                 /\ Consume(tape, res.used)
                 /\ IF res.err # ""
                    THEN Raised(res.err)
                    ELSE /\ df_cols' = Append(df_cols, Entry(col, res.values))
                         /\ drawn' = res.gens
                         /\ draw_log' = draw_log \o DrawsOfColumn(col, res.gens)
                         /\ UNCHANGED <<pc, err, df_rows, tier_log, df, lost_iters>>
    /\ housing_config' = ConfigAfterDraws(housing_config)
    /\ UNCHANGED <<variant, n, csv, seeded, run, df_first, dbvars>>

\* "return pd.DataFrame(...)" and the cell's "df = ..."
BuilderReturn ==
    /\ pc = "building"
    /\ IF variant = "tiered"
       THEN /\ Len(df_rows) = n
            /\ df' = DataFrameFromRows(df_rows)
       ELSE /\ Len(df_cols) = Len(housing_config)
            /\ df' = DataFrameFromCols(df_cols)
    /\ pc' = "built"
    /\ UNCHANGED <<variant, housing_config, n, df_rows, df_cols, tier_log, drawn,
                   csv, err, seeded, py_stream, py_pos, run, df_first,
                   lost_iters, draw_log, dbvars>>

\* df.describe(): the cell between the builder cell and to_csv; pandas
\* raises ValueError("Cannot describe a DataFrame without columns")
Describe ==
    /\ pc = "built"
    /\ IF Len(df.columns) = 0
       THEN pc' = "raised" /\ err' = "ValueError"
       ELSE pc' = "described" /\ err' = err
    /\ UNCHANGED <<genvars, dbvars>>

\* tiered: df.to_csv("data/housing-data.csv", index=False)
\* flat:   df.to_csv(S3_BUCKET_LOCATION)
ToCsv ==
    /\ pc = "described"
    /\ csv' = to_csv(df, variant = "flat")
    /\ pc' = "saved"
    /\ UNCHANGED <<variant, housing_config, n, df_rows, df_cols, tier_log, drawn,
                   df, err, seeded, py_stream, py_pos, run, df_first,
                   lost_iters, draw_log, dbvars>>

\* sqlite notebook, first cell, on the file the tiered notebook saved:
\*   df = pd.read_csv("data/housing-data.csv")[:20]
\*   df["market_id"] = [ f"prop_{i}" for i in range(len(df))]
ReadCsv ==
    /\ pc = "saved"
    /\ variant = "tiered"
    /\ LET res == read_csv(csv)
           frame == HeadRows(res.frame, RowLimit)
       IN  IF res.err # ""
           THEN /\ pc' = "db_raised"
                /\ err' = res.err
                /\ db_df' = db_df
           ELSE /\ pc' = "read"
                /\ err' = ""
                /\ db_df' = SetColumn(frame, "market_id",
                                [i \in 1..Len(frame.rows) |->
                                   StrV(market_id(i - 1))])
    /\ UNCHANGED <<genvars, database, query_results, teardown_log, teardowns,
                   nb_run, db_first>>

Next ==
    \/ LoadConfig
    \/ CallBuilder
    \/ BuilderRow
    \/ BuilderCol
    \/ BuilderReturn
    \/ Describe
    \/ ToCsv
    \/ ReadCsv

Spec == Init /\ [][Next]_vars

----------------------------------------------------------------------------
(* Seeded runs: random.seed(s) is called before the builder cell, and the  *)
(* cell is run a second time under the same seed.                          *)

InitSeeded ==
    /\ pc = "start"
    /\ variant \in {"tiered", "flat"}
    /\ housing_config = <<>>
    /\ n = 0
    /\ df_rows = <<>>
    /\ df_cols = <<>>
    /\ tier_log = <<>>
    /\ drawn = <<>>
    /\ df = NoDF
    /\ csv = NoCsv
    /\ err = ""
    /\ seeded = TRUE
    /\ py_stream = <<>>
    /\ py_pos = 0
    /\ run = 1
    /\ df_first = NoDF
    /\ lost_iters = 0
    /\ draw_log = <<>>
    /\ NoDatabaseNotebook

\* random.seed(s) again, then the builder cell again with the same arguments
Rerun ==
    /\ pc = "saved"
    /\ seeded
    /\ run = 1
    /\ run' = 2
    /\ df_first' = df
    /\ py_pos' = 0
    /\ pc' = "building"
    /\ df_rows' = <<>>
    /\ df_cols' = <<>>
    /\ tier_log' = <<>>
    /\ drawn' = <<>>
    /\ lost_iters' = 0
    /\ draw_log' = <<>>
    /\ UNCHANGED <<variant, housing_config, n, df, csv, err, seeded, py_stream,
                   dbvars>>

NextSeeded ==
    \/ Next
    \/ Rerun

SpecSeeded == InitSeeded /\ [][NextSeeded]_vars

----------------------------------------------------------------------------
(* The sqlite notebook.                                                    *)
(* Every cell opens its own Session on the engine of data/housing.db.      *)
(* The pysqlite driver opens a transaction only in front of INSERT, UPDATE *)
(* and DELETE: a CREATE TABLE or DROP TABLE runs outside any transaction   *)
(* and is on disk when the statement returns, so the ROLLBACK a Session    *)
(* issues when it is closed without commit() has nothing to undo.  (The    *)
(* log of create_all shows it: transport_codes, which no cell drops, is    *)
(* found in the file, the two dropped tables are not and are created.)     *)

\* Base.metadata: the tables of the three mapped classes
MetadataTables == {"housing_market", "transport_codes", "estate_agent_codes"}

\* Base.metadata.create_all(engine): CREATE TABLE for the tables the file
\* does not have yet (checkfirst)
CreateAllWithoutCheck(dbase) ==
    IF dbase.tables \cap MetadataTables # {}
    THEN [err |-> "OperationalError", db |-> dbase]
    ELSE [err |-> "", db |-> [dbase EXCEPT !.tables = @ \cup MetadataTables]]

create_all(dbase) ==
    [err |-> "", db |-> [dbase EXCEPT !.tables = @ \cup MetadataTables]]

\* the columns the populate cell reads from a row of df
HousingColumns ==
    <<"price", "bedrooms", "bathrooms", "estate_agent_code",
      "transport_link_code", "council_tax", "freehold", "garage", "parking">>

\* the attributes of row the cell reads: market_id, then the nine columns
RowAttributes == <<"market_id">> \o HousingColumns

\* HousingMarket(market_id=row.market_id, price=row.price, ...); a boolean
\* is stored as 1 or 0
HousingMarket(frame, i) ==
    [market_id |-> FrameCell(frame, i, "market_id").s,
     price |-> FrameCell(frame, i, "price").i,
     bedrooms |-> FrameCell(frame, i, "bedrooms").i,
     bathrooms |-> FrameCell(frame, i, "bathrooms").i,
     estate_agent_code |-> FrameCell(frame, i, "estate_agent_code").i,
     transport_link_code |-> FrameCell(frame, i, "transport_link_code").i,
     council_tax |-> FrameCell(frame, i, "council_tax").s,
     freehold |-> FrameCell(frame, i, "freehold").i,
     garage |-> FrameCell(frame, i, "garage").i,
     parking |-> FrameCell(frame, i, "parking").i]

\* a missing value is bound as NULL, and every column is NOT NULL
HasNull(frame, i) ==
    \E c \in Range(RowAttributes) : FrameCell(frame, i, c).kind \in {"nan", "none"}

\* session.add_all(rows); session.commit() on one table: the INSERTs and the
\* COMMIT, or the exception and the rollback of the closing Session; without
\* rows no statement is sent
InsertAll(dbase, table, old, new, keys) ==
    IF Len(new) = 0
    THEN [err |-> "", rows |-> old]
    ELSE IF table \notin dbase.tables
    THEN [err |-> "OperationalError", rows |-> old]
    ELSE IF \E p \in 1..Len(keys) : \E q \in 1..Len(keys) :
                p # q /\ keys[p] = keys[q]
    THEN [err |-> "IntegrityError", rows |-> old]
    ELSE [err |-> "", rows |-> old \o new]

estate_agent_mapping_short ==
    <<Entry(1, "Clapham"), Entry(2, "Deptford"), Entry(3, "Brixton"),
      Entry(4, "Richmond")>>

estate_agent_mapping ==
    <<Entry(1, "Clapham"), Entry(2, "Deptford"), Entry(3, "Brixton"),
      Entry(4, "Richmond"), Entry(5, "Isle of Dogs")>>

\* EstageAgentCodes(estate_agent_code = k, estate_agent_string = v)
EstageAgentCodes(k, v) == [estate_agent_code |-> k, estate_agent_string |-> v]

\* where eac.estate_agent_string in ("Richmond", "Clapham")
QueryStringsRichmondOnly == {"Richmond"}

QueryStrings == {"Richmond", "Clapham"}

\* the rows of the join for one row of housing_market
Matches(hm, eacs) ==
    LET on == SelectSeq(eacs, LAMBDA eac :
                  /\ hm.estate_agent_code = eac.estate_agent_code
                  /\ eac.estate_agent_string \in QueryStrings)
    IN  [k \in 1..Len(on) |->
           [estate_agent_string |-> on[k].estate_agent_string,
            market_id |-> hm.market_id,
            price |-> hm.price,
            bedrooms |-> hm.bedrooms]]

\* sql_query_string: housing_market hm JOIN estate_agent_codes eac
RECURSIVE Join(_, _)
Join(hms, eacs) ==
    IF Len(hms) = 0 THEN <<>>
    ELSE Matches(Head(hms), eacs) \o Join(Tail(hms), eacs)

sql_query(dbase) ==
    IF {"housing_market", "estate_agent_codes"} \subseteq dbase.tables
    THEN [err |-> "", rows |-> Join(dbase.housing_market, dbase.estate_agent_codes)]
    ELSE [err |-> "OperationalError", rows |-> <<>>]

\* "drop table <name>" on a table of the file
DropRolledBack(dbase, table_name) == dbase

DropStatement(dbase, table_name) ==
    [tables |-> dbase.tables \ {table_name},
     housing_market |->
        IF table_name = "housing_market" THEN <<>> ELSE dbase.housing_market,
     estate_agent_codes |->
        IF table_name = "estate_agent_codes" THEN <<>>
        ELSE dbase.estate_agent_codes]

\* drop_tables(table_name): the statement in a try block that prints an
\* OperationalError ("no such table"); raised is the exception that leaves
\* the function
drop_tables_without_except(dbase, table_name) ==
    IF table_name \in dbase.tables
    THEN [db |-> DropStatement(dbase, table_name), existed |-> TRUE,
          caught |-> FALSE, raised |-> ""]
    ELSE [db |-> dbase, existed |-> FALSE, caught |-> FALSE,
          raised |-> "OperationalError"]

drop_tables(dbase, table_name) ==
    IF table_name \in dbase.tables
    THEN [db |-> DropStatement(dbase, table_name), existed |-> TRUE,
          caught |-> FALSE, raised |-> ""]
    ELSE [db |-> dbase, existed |-> FALSE, caught |-> TRUE, raised |-> ""]

\* the record of one drop_tables call in teardown_log
Call(table_name, before, res) ==
    [table |-> table_name, existed |-> res.existed, caught |-> res.caught,
     before |-> before, after |-> res.db]

\* the lines of the file, estate_agent_code apart (rows 0 and 1 of the
\* notebook's data)
Listings ==
    {[price |-> 304000, bedrooms |-> 4, bathrooms |-> 3,
      transport_link_code |-> 7, council_tax |-> <<"F">>, freehold |-> TRUE,
      garage |-> TRUE, parking |-> FALSE],
     [price |-> 218000, bedrooms |-> 2, bathrooms |-> 3,
      transport_link_code |-> 7, council_tax |-> <<"B">>, freehold |-> FALSE,
      garage |-> TRUE, parking |-> FALSE]}

FileRows == [listing : Listings, code : 1..MaxCode]

\* data/housing-data.csv as the tiered notebook writes it (no index column)
HousingFile(rows) ==
    [written |-> TRUE,
     header |-> HousingColumns,
     lines |-> [i \in 1..Len(rows) |->
                  <<IntText(rows[i].listing.price),
                    IntText(rows[i].listing.bedrooms),
                    IntText(rows[i].listing.bathrooms),
                    IntText(rows[i].code),
                    IntText(rows[i].listing.transport_link_code),
                    rows[i].listing.council_tax,
                    CellText(BoolV(rows[i].listing.freehold)),
                    CellText(BoolV(rows[i].listing.garage)),
                    CellText(BoolV(rows[i].listing.parking))>>]]

HousingFiles ==
    {HousingFile(rows) : rows \in UNION {[1..k -> FileRows] : k \in 0..MaxCsvRows}}

\* the file is on disk, data/housing.db is new, the kernel is fresh
InitDb ==
    /\ pc = "saved"
    /\ err = ""
    /\ variant = "tiered"
    /\ housing_config = <<>>
    /\ n = 0
    /\ df_rows = <<>>
    /\ df_cols = <<>>
    /\ tier_log = <<>>
    /\ drawn = <<>>
    /\ df = NoDF
    /\ csv \in HousingFiles
    /\ seeded = FALSE
    /\ py_stream = <<>>
    /\ py_pos = 0
    /\ run = 1
    /\ df_first = NoDF
    /\ lost_iters = 0
    /\ draw_log = <<>>
    /\ NoDatabaseNotebook

\* a cell of the sqlite notebook raised: the run stops
DbRaised(e) ==
    /\ pc' = "db_raised"
    /\ err' = e

\* Base.metadata.create_all(engine)
CreateAll ==
    /\ pc = "read"
    /\ LET res == create_all(database)
       IN  /\ database' = res.db
           /\ IF res.err # "" THEN DbRaised(res.err)
              ELSE pc' = "created" /\ err' = err
    /\ UNCHANGED <<genvars, db_df, query_results, teardown_log, teardowns,
                   nb_run, db_first>>

\* the cell that fills housing_market from df.iterrows()
PopulateHousing ==
    /\ pc = "created"
    /\ IF /\ Len(db_df.rows) > 0
          /\ ~(Range(RowAttributes) \subseteq Range(db_df.columns))
       THEN DbRaised("AttributeError") /\ database' = database
       ELSE IF \E i \in 1..Len(db_df.rows) : HasNull(db_df, i)
       THEN DbRaised("IntegrityError") /\ database' = database
       ELSE LET db_rows == [i \in 1..Len(db_df.rows) |-> HousingMarket(db_df, i)]
                res == InsertAll(database, "housing_market",
                                 database.housing_market, db_rows,
                                 [k \in 1..(Len(database.housing_market)
                                            + Len(db_rows)) |->
                                    (database.housing_market \o db_rows)[k].market_id])
            IN  /\ database' = [database EXCEPT !.housing_market = res.rows]
                /\ IF res.err # "" THEN DbRaised(res.err)
                   ELSE pc' = "populated_housing" /\ err' = err
    /\ UNCHANGED <<genvars, db_df, query_results, teardown_log, teardowns,
                   nb_run, db_first>>

\* the cell that fills estate_agent_codes from estate_agent_mapping
PopulateAgents ==
    /\ pc = "populated_housing"
    /\ LET db_rows == [k \in 1..Len(estate_agent_mapping) |->
                         EstageAgentCodes(estate_agent_mapping[k].name,
                                          estate_agent_mapping[k].value)]
           res == InsertAll(database, "estate_agent_codes",
                            database.estate_agent_codes, db_rows,
                            [k \in 1..(Len(database.estate_agent_codes)
                                       + Len(db_rows)) |->
                               (database.estate_agent_codes
                                \o db_rows)[k].estate_agent_code])
       IN  /\ database' = [database EXCEPT !.estate_agent_codes = res.rows]
           /\ IF res.err # "" THEN DbRaised(res.err)
              ELSE pc' = "populated_agents" /\ err' = err
    /\ UNCHANGED <<genvars, db_df, query_results, teardown_log, teardowns,
                   nb_run, db_first>>

\* the test query: session.execute(str_sql), query.fetchall()
Query ==
    /\ pc = "populated_agents"
    /\ LET res == sql_query(database)
       IN  /\ query_results' = res.rows
           /\ IF res.err # "" THEN DbRaised(res.err)
              ELSE pc' = "queried" /\ err' = err
    /\ UNCHANGED <<genvars, db_df, database, teardown_log, teardowns, nb_run,
                   db_first>>

\* the last cell: drop_tables("estate_agent_codes"), then
\* drop_tables("housing_market"); the cell may be run again
Teardown ==
    /\ pc \in {"queried", "torn_down"}
    /\ teardowns < 2
    /\ teardowns' = teardowns + 1
    /\ LET c1 == drop_tables(database, "estate_agent_codes")
           c2 == drop_tables(c1.db, "housing_market")
       IN  IF c1.raised # ""
           THEN /\ DbRaised(c1.raised)
                /\ database' = c1.db
                /\ teardown_log' = <<Call("estate_agent_codes", database, c1)>>
           ELSE IF c2.raised # ""
           THEN /\ DbRaised(c2.raised)
                /\ database' = c2.db
                /\ teardown_log' = <<Call("estate_agent_codes", database, c1),
                                     Call("housing_market", c1.db, c2)>>
           ELSE /\ pc' = "torn_down"
                /\ err' = err
                /\ database' = c2.db
                /\ teardown_log' = <<Call("estate_agent_codes", database, c1),
                                     Call("housing_market", c1.db, c2)>>
    /\ UNCHANGED <<genvars, db_df, query_results, nb_run, db_first>>

\* the whole notebook a second time, on the same files with a fresh kernel
RunAgain ==
    /\ pc = "torn_down"
    /\ nb_run = 1
    /\ nb_run' = 2
    /\ pc' = "saved"
    /\ db_first' = database
    /\ db_df' = NoDF
    /\ query_results' = <<>>
    /\ teardowns' = 0
    /\ UNCHANGED <<err, genvars, database, teardown_log>>

NextDb ==
    \/ ReadCsv
    \/ CreateAll
    \/ PopulateHousing
    \/ PopulateAgents
    \/ Query
    \/ Teardown
    \/ RunAgain

SpecDb == InitDb /\ [][NextDb]_vars

----------------------------------------------------------------------------
(* Vocabulary of the properties *)

\* df is bound: "df = generate_housing_df(housing_config)" (flat:
\* generate_housing_data_df) has completed at least once in this kernel; an
\* exception of a later cell and the cells of the other notebook unbind
\* nothing, and a second call rebinds the name only when it returns
Built == df.defined

\* the keys of a dict
KeySet(entries) == {entries[k].name : k \in 1..Len(entries)}

\* the fields the specification requires for a rule tag
RequiredKeys(type) ==
    IF type = "min_max" THEN {"min", "max"}
    ELSE IF type = "dist" THEN {"mean", "sd"}
    ELSE IF type = "list" THEN {"list"}
    ELSE {}

RecognizedTags == {"min_max", "bool", "dist", "list"}

\* a rule of the explicit schema whose tag is not one of the recognized forms
UnrecognizedRule(attribute) ==
    "type" \in attribute.keys /\ attribute.type \notin RecognizedTags

\* a rule of the explicit schema that is complete and can be drawn from
ValidRule(attribute) ==
    /\ attribute.t = "dict"
    /\ "type" \in attribute.keys
    /\ attribute.type \in RecognizedTags
    /\ RequiredKeys(attribute.type) \subseteq attribute.keys
    /\ attribute.type = "min_max" => attribute.min <= attribute.max
    /\ attribute.type = "dist" => attribute.sd >= 0
    /\ attribute.type = "list" => Len(attribute.l) > 0

\* a value of the legacy schema that is a range "a-b" (a <= b) or a
\* non-empty list
ValidLegacyValue(value) ==
    \/ /\ value.t = "str"
       /\ LET parts == Split(value.s, "-")
          IN  /\ Len(parts) = 2
              /\ IsIntLiteral(parts[1])
              /\ IsIntLiteral(parts[2])
              /\ ParseInt(parts[1]) <= ParseInt(parts[2])
    \/ /\ value.t = "list"
       /\ Len(value.l) > 0

ValidConfiguration ==
    IF variant = "flat"
    THEN \A k \in 1..Len(housing_config) : ValidRule(housing_config[k].value)
    ELSE \A t \in 1..Len(housing_config) :
            \A k \in 1..Len(housing_config[t].value) :
                ValidLegacyValue(housing_config[t].value[k].value)

\* the rule-set the i-th row of df_rows was generated from
TierOfRow(i) == housing_config[tier_log[i]].value

Abs(x) == IF x < 0 THEN 0 - x ELSE x

\* the attribute names of the configuration, in order
RECURSIVE TierColumns(_, _)
TierColumns(tiers, cols) ==
    IF Len(tiers) = 0 THEN cols
    ELSE TierColumns(Tail(tiers), AddNames(cols, Names(Head(tiers).value)))

ConfiguredNames ==
    IF variant = "flat" THEN Names(housing_config)
    ELSE TierColumns(housing_config, <<>>)

\* the header fields that name a column (the index field has no name)
HeaderNames(text) == SelectSeq(text.header, LAMBDA f : f # "")

----------------------------------------------------------------------------
(* C1: loading a configuration that holds a rule with a missing required   *)
(* field fails at load time: a successfully loaded Configuration holds no  *)
(* min_max rule without min or max, no dist rule without mean or sd, no    *)
(* list rule without list, and no KeyError is left for generation time.    *)
C1_LoadRejectsIncompleteRules ==
    /\ (variant = "flat" /\ pc \notin {"start", "raised"}) =>
          \A k \in 1..Len(housing_config) :
              LET attribute == housing_config[k].value
              IN  "type" \in attribute.keys =>
                     RequiredKeys(attribute.type) \subseteq attribute.keys
    /\ err # "KeyError"

(* C2: the row returned by generate_one_row_random_house_data has exactly  *)
(* the key set of the rule-set it was generated from, whatever the shape   *)
(* of the configured values.                                               *)
C2_RowHasEveryAttribute ==
    variant = "tiered" =>
        \A i \in 1..Len(df_rows) : KeySet(df_rows[i]) = KeySet(TierOfRow(i))

(* C3: a rule of an unrecognized form that reaches value generation makes  *)
(* generation fail: no value is produced for it (no None in a column of    *)
(* the flat builder) and no row is returned from a rule-set that holds a   *)
(* value that is neither a range string nor a list.                        *)
C3_UnrecognizedRuleFails ==
    /\ variant = "flat" =>
          \A k \in 1..Len(df_cols) :
              UnrecognizedRule(housing_config[k].value) => Len(df_cols[k].value) = 0
    /\ variant = "tiered" =>
          \A i \in 1..Len(df_rows) :
              \A k \in 1..Len(TierOfRow(i)) :
                  TierOfRow(i)[k].value.t \in {"str", "list"}

(* C4: for every range rule of either schema (legacy "min-max" string,     *)
(* explicit type = min_max), a draw above 100000 is returned as a multiple *)
(* of 1000 and a draw of at most 100000 is returned unchanged.             *)
C4_RangeRoundedInBothVariants ==
    \A k \in 1..Len(drawn) :
        drawn[k].rule = "range" =>
            /\ drawn[k].d > RoundAbove => drawn[k].v.i % Thousand = 0
            /\ drawn[k].d <= RoundAbove => drawn[k].v = IntV(drawn[k].d)

(* C5: for every valid range rule the draw d lies in [min, max] and the    *)
(* returned value v is within 500 of d, so v lies in [min-500, max+500]    *)
(* and leaves [min, max] only when rounding moved it across a bound.       *)
C5_RangeDrawWithinBounds ==
    \A k \in 1..Len(drawn) :
        (drawn[k].rule = "range" /\ drawn[k].lo <= drawn[k].hi) =>
            /\ drawn[k].lo <= drawn[k].d
            /\ drawn[k].d <= drawn[k].hi
            /\ drawn[k].v.kind = "int"
            /\ Abs(drawn[k].v.i - drawn[k].d) <= Thousand \div 2
            /\ drawn[k].lo - (Thousand \div 2) <= drawn[k].v.i
            /\ drawn[k].v.i <= drawn[k].hi + (Thousand \div 2)
            /\ drawn[k].v.i \notin drawn[k].lo..drawn[k].hi =>
                  (drawn[k].v.i # drawn[k].d /\ drawn[k].v.i % Thousand = 0)

\* a returned value that rounding moved below the configured minimum
C5_Witness ==
    \E k \in 1..Len(drawn) :
        /\ drawn[k].rule = "range"
        /\ drawn[k].lo <= drawn[k].d
        /\ drawn[k].v.i < drawn[k].lo

(* C6: every value generated for a list rule with a non-empty list is an   *)
(* element of that list, and every value generated for a bool rule is      *)
(* True or False.                                                          *)
C6_ChoiceIsMember ==
    \A k \in 1..Len(drawn) :
        /\ (drawn[k].rule = "choice" /\ Len(drawn[k].list) > 0) =>
              drawn[k].v \in Range(drawn[k].list)
        /\ drawn[k].rule = "bool" => drawn[k].v \in {BoolV(TRUE), BoolV(FALSE)}

\* the last element of a two-element list was chosen, and so was False
C6_Witness ==
    /\ \E k \in 1..Len(drawn) :
          /\ drawn[k].rule = "choice"
          /\ Len(drawn[k].list) = 2
          /\ drawn[k].v = drawn[k].list[2]
    /\ \E k \in 1..Len(drawn) :
          /\ drawn[k].rule \in {"bool", "choice"}
          /\ drawn[k].v = BoolV(FALSE)

\* v is a value the legacy rule `value` allows
SatisfiesLegacy(value, v) ==
    IF value.t = "str"
    THEN LET parts == Split(value.s, "-")
             bounds == [k \in 1..Len(parts) |-> ParseInt(parts[k])]
         IN  /\ v.kind = "int"
             /\ \/ v.i \in SeqMin(bounds)..SeqMax(bounds)
                \/ /\ v.i % Thousand = 0
                   /\ SeqMin(bounds) - (Thousand \div 2) <= v.i
                   /\ v.i <= SeqMax(bounds) + (Thousand \div 2)
    ELSE IF value.t = "list" THEN v \in Range(value.l)
    ELSE FALSE

(* C7: every row of the tiered builder comes from one tier of the          *)
(* Configuration: its key set is that tier's attribute set and each of     *)
(* its values satisfies that tier's rule for the attribute.                *)
C7_RowFromOneTier ==
    variant = "tiered" =>
        \A i \in 1..Len(df_rows) :
            /\ tier_log[i] \in 1..Len(housing_config)
            /\ KeySet(df_rows[i]) = KeySet(TierOfRow(i))
            /\ \A k \in 1..Len(TierOfRow(i)) :
                  \E j \in 1..Len(df_rows[i]) :
                      /\ df_rows[i][j].name = TierOfRow(i)[k].name
                      /\ SatisfiesLegacy(TierOfRow(i)[k].value, df_rows[i][j].value)

(* C8: for every row count N >= 0 and every valid Configuration the        *)
(* dataset a builder returns has exactly N rows.                           *)
C8_DatasetHasNRows ==
    (Built /\ ValidConfiguration) => Len(df.rows) = n

(* C9: for N = 0 the dataset a builder returns is empty, and serializing   *)
(* it (to_csv as the notebook calls it) yields one line, the header made   *)
(* of the configured attribute names, and no data line.                    *)
C9_EmptyDatasetIsHeaderOnly ==
    (Built /\ n = 0) =>
        /\ Len(df.rows) = 0
        /\ Len(to_csv(df, variant = "flat").lines) = 0
        /\ HeaderNames(to_csv(df, variant = "flat")) = ConfiguredNames

(* C10: under a fixed seed, a second run of the builder with the same      *)
(* Configuration and the same N returns the dataset of the first run.      *)
C10_SeededRunsAgree ==
    (run = 2 /\ Built) => df = df_first

----------------------------------------------------------------------------
(* C11: every CSV text the program writes, to the local file and to the    *)
(* object store alike, is the header line and one line per record without  *)
(* an index column: the header is the dataset's attribute names and every  *)
(* line has as many fields as the dataset has attributes.                  *)
C11_CsvHasNoIndexColumn ==
    (csv.written /\ df.defined) =>
        /\ csv.header = df.columns
        /\ Len(csv.lines) = Len(df.rows)
        /\ \A i \in 1..Len(csv.lines) : Len(csv.lines[i]) = Len(df.columns)

\* the frame read_csv returned: db_df without the market_id column
ReadBackColumns == SelectSeq(db_df.columns, LAMBDA c : c # "market_id")

(* C12: writing a dataset to CSV and parsing the text back gives a dataset *)
(* with the same number of rows, the same attribute set, and for every row *)
(* and attribute the same value of the same type (an integer comes back as *)
(* an integer, a boolean as a boolean, a string as a string), also when    *)
(* the tiers of the Configuration do not define the same attributes.       *)
C12_CsvRoundTrip ==
    (variant = "tiered" /\ pc \in {"read", "db_raised"} /\ df.defined) =>
        /\ pc = "read"
        /\ Len(db_df.rows) = Len(df_rows)
        /\ Range(ReadBackColumns) = Range(df.columns)
        /\ \A i \in 1..Len(df_rows) :
              \A k \in 1..Len(df_rows[i]) :
                  FrameCell(db_df, i, df_rows[i][k].name) = df_rows[i][k].value

(* C17: a generation run that fails produces no dataset: when generating a *)
(* value raises, the builder returns nothing, df is not assigned, and none *)
(* of the rows or columns generated before the failure is kept or written  *)
(* to a sink.                                                              *)
C17_FailedRunProducesNoDataset ==
    [][(pc = "building" /\ pc' = "raised") =>
          /\ df' = NoDF
          /\ csv' = NoCsv
          /\ df_rows' = <<>>
          /\ df_cols' = <<>>]_vars

\* the builder raised after an iteration that had generated values
C17_Witness ==
    /\ pc = "raised"
    /\ lost_iters >= 1
    /\ draw_log # <<>>

\* the position of a column in the Configuration of the flat notebook
ColumnIndex(name) ==
    CHOOSE k \in 1..Len(housing_config) : housing_config[k].name = name

\* the draws are in row order: no value of a row after a value of a later row
RowMajor ==
    \A p \in 1..Len(draw_log) : \A q \in 1..Len(draw_log) :
        p < q => draw_log[p].row <= draw_log[q].row

\* the draws are in column order, and in row order within a column
ColumnMajor ==
    \A p \in 1..Len(draw_log) : \A q \in 1..Len(draw_log) :
        p < q =>
            \/ ColumnIndex(draw_log[p].name) < ColumnIndex(draw_log[q].name)
            \/ /\ draw_log[p].name = draw_log[q].name
               /\ draw_log[p].row < draw_log[q].row

(* C20 as stated: both builders assemble the dataset one complete row at a *)
(* time: every value of row i is drawn before any value of row i+1.        *)
C20_RowAtATimeInBothVariants ==
    /\ RowMajor
    /\ (variant = "tiered" /\ Built /\ pc # "building") => Len(tier_log) = n

(* C20 amended: the tiered builder calls the row generator N times and     *)
(* draws every value of row i before any value of row i+1; the flat        *)
(* builder draws the N values of a column, in row order, before any value  *)
(* of the next column.                                                     *)
C20_RowAtATimeInTieredOnly ==
    /\ variant = "tiered" => RowMajor
    /\ (variant = "tiered" /\ Built /\ pc # "building") => Len(tier_log) = n
    /\ variant = "flat" => ColumnMajor

\* a tiered dataset of two rows with two drawn values each
C20_Witness ==
    /\ variant = "tiered"
    /\ Built
    /\ n = 2
    /\ Len(draw_log) = 4
    /\ draw_log[2].row = 1
    /\ draw_log[3].row = 2

----------------------------------------------------------------------------
(* Properties of the sqlite notebook *)

DroppedTables == {"estate_agent_codes", "housing_market"}

\* both calls of the last teardown cell found their table in the file
BothExisted ==
    /\ Len(teardown_log) = 2
    /\ \A c \in 1..2 : teardown_log[c].existed

(* C13: after drop_tables("estate_agent_codes") and                        *)
(* drop_tables("housing_market") on a database where both tables exist,    *)
(* neither table exists in the file, for any session opened afterwards     *)
(* (the second run of the teardown cell, the next run of the notebook up   *)
(* to its create_all): the drop is durable.                                *)
C13_DropIsDurable ==
    (BothExisted /\ pc \in {"torn_down", "saved", "read"}) =>
        /\ database.tables \cap DroppedTables = {}
        /\ database.housing_market = <<>>
        /\ database.estate_agent_codes = <<>>

\* the teardown of a populated database, and the notebook started again
C13_Witness ==
    /\ BothExisted
    /\ pc = "read"
    /\ nb_run = 2
    /\ Len(teardown_log[2].before.housing_market) > 0

(* C14: the sqlite notebook is idempotent: its whole sequence (create_all, *)
(* populate housing_market, populate estate_agent_codes, query, drop       *)
(* tables) run twice on the same database file succeeds both times, the    *)
(* second populate meets no primary-key conflict, and the second run       *)
(* leaves the database as the first run left it.                           *)
C14_NotebookIsIdempotent ==
    /\ pc # "db_raised"
    /\ err = ""
    /\ (nb_run = 2 /\ pc = "torn_down") => database = db_first
    /\ (nb_run = 2 /\ pc = "populated_housing") =>
          Len(database.housing_market) = Len(db_df.rows)

\* the second run is through its teardown, with rows loaded
C14_Witness ==
    /\ nb_run = 2
    /\ pc = "torn_down"
    /\ Len(db_df.rows) = MaxCsvRows
    /\ teardown_log[2].before.housing_market # <<>>

(* C15: drop_tables for a table that does not exist does not propagate an  *)
(* error: the exception is caught and printed, the call returns normally,  *)
(* the following drop_tables call still runs, and tables and rows are as   *)
(* they were before the failed call.                                       *)
C15_DropOfMissingTableIsCaught ==
    /\ \A c \in 1..Len(teardown_log) :
          ~teardown_log[c].existed =>
              /\ teardown_log[c].caught
              /\ teardown_log[c].after = teardown_log[c].before
    /\ teardowns > 0 => (pc # "db_raised" /\ Len(teardown_log) = 2)

\* a teardown cell whose first call met a missing table and whose second
\* call ran
C15_Witness ==
    /\ pc = "torn_down"
    /\ Len(teardown_log) = 2
    /\ ~teardown_log[1].existed
    /\ teardown_log[2].table = "housing_market"

\* the market_id column of df
MarketIds == [i \in 1..Len(db_df.rows) |-> FrameCell(db_df, i, "market_id")]

(* C16: every loaded row gets the identifier "prop_<i>", i its zero-based  *)
(* position; the market_id values are pairwise distinct and as many as the *)
(* loaded rows, and the rows of one load never violate the primary key of  *)
(* housing_market.                                                         *)
C16_MarketIdsAreDistinct ==
    /\ db_df.defined =>
          /\ \A i \in 1..Len(db_df.rows) :
                MarketIds[i] = StrV(<<"p", "r", "o", "p", "_">> \o IntToStr(i - 1))
          /\ Cardinality(Range(MarketIds)) = Len(db_df.rows)
    /\ err # "IntegrityError"
    /\ pc = "populated_housing" =>
          /\ Len(database.housing_market) = Len(db_df.rows)
          /\ \A i \in 1..Len(db_df.rows) :
                database.housing_market[i].market_id = MarketIds[i].s

\* two rows loaded and inserted
C16_Witness ==
    /\ pc = "populated_housing"
    /\ Len(db_df.rows) >= 2
    /\ Len(database.housing_market) >= 2

\* both populate cells have committed
Populated == pc \in {"populated_agents", "queried"}

MappedCodes == 1..5

(* C18: after both populate steps, and for data whose estate_agent_code    *)
(* values lie in 1..5, every estate_agent_code stored in housing_market    *)
(* has exactly one matching row in estate_agent_codes.                     *)
C18_EveryCodeHasOneLookupRow ==
    (/\ Populated
     /\ \A i \in 1..Len(database.housing_market) :
           database.housing_market[i].estate_agent_code \in MappedCodes) =>
        \A i \in 1..Len(database.housing_market) :
            Cardinality({k \in 1..Len(database.estate_agent_codes) :
                           database.estate_agent_codes[k].estate_agent_code
                           = database.housing_market[i].estate_agent_code}) = 1

\* housing_market holds a row of code 5 and a row of another mapped code
C18_Witness ==
    /\ Populated
    /\ Len(database.housing_market) >= 2
    /\ \A i \in 1..Len(database.housing_market) :
          database.housing_market[i].estate_agent_code \in MappedCodes
    /\ database.housing_market[1].estate_agent_code = 5
    /\ database.housing_market[2].estate_agent_code # 5

\* the codes of "Richmond" and "Clapham"
QueriedCodes == {4, 1}

\* the result rows that carry the market_id, price and bedrooms of hm
ResultsOf(hm) ==
    {k \in 1..Len(query_results) :
        /\ query_results[k].market_id = hm.market_id
        /\ query_results[k].price = hm.price
        /\ query_results[k].bedrooms = hm.bedrooms}

(* C19: after both populate steps the test query returns exactly one       *)
(* result row for every housing_market row whose estate_agent_code maps to *)
(* "Richmond" or "Clapham" (codes 4 and 1), with that row's market_id,     *)
(* price and bedrooms, and no result row for any other housing_market row. *)
C19_QueryReturnsRichmondAndClapham ==
    pc = "queried" =>
        /\ \A i \in 1..Len(database.housing_market) :
              LET hm == database.housing_market[i]
              IN  /\ Cardinality({k \in 1..Len(query_results) :
                                    query_results[k].market_id = hm.market_id})
                       = (IF hm.estate_agent_code \in QueriedCodes THEN 1 ELSE 0)
                  /\ hm.estate_agent_code \in QueriedCodes =>
                        Cardinality(ResultsOf(hm)) = 1
        /\ \A k \in 1..Len(query_results) :
              \E i \in 1..Len(database.housing_market) :
                  /\ query_results[k].market_id = database.housing_market[i].market_id
                  /\ query_results[k].estate_agent_string =
                        (IF database.housing_market[i].estate_agent_code = 4
                         THEN "Richmond" ELSE "Clapham")

\* a Clapham row is returned and a row of another agent is not
C19_Witness ==
    /\ pc = "queried"
    /\ Len(database.housing_market) = 2
    /\ database.housing_market[1].estate_agent_code = 1
    /\ database.housing_market[2].estate_agent_code = 3
    /\ Len(query_results) = 1
    /\ query_results[1].estate_agent_string = "Clapham"

----------------------------------------------------------------------------
(* C21: generation never modifies the Configuration: whatever the number   *)
(* of calls of get_random_tier_config, generate_one_row_random_house_data, *)
(* build_random_housing_column_value and the builders, the Configuration   *)
(* (tier names, attribute names, range strings, lists, rule fields) stays  *)
(* what it was after load.                                                 *)
C21_GenerationKeepsConfiguration ==
    [][pc # "start" => housing_config' = housing_config]_vars

\* a dataset of two rows was built from a Configuration with attributes
C21_Witness ==
    /\ Built
    /\ Len(df.rows) = 2
    /\ Len(df.columns) > 0
    /\ Len(housing_config) > 0

\* the values the last iteration generated from a dist rule
DistDraws == {k \in 1..Len(drawn) : drawn[k].rule = "dist"}

\* v is a multiple of 1000 within 500 of the sample d
RoundedSample(g) ==
    /\ g.v.kind = "int"
    /\ g.v.i % Thousand = 0
    /\ Abs(g.v.i - g.d) <= Thousand \div 2

(* C22 as stated: for a dist rule the returned value is an integer         *)
(* multiple of 1000 within 500 of the drawn sample, and it is not clamped: *)
(* a negative sample yields a negative returned value.                     *)
C22_NegativeSampleStaysNegative ==
    \A k \in DistDraws :
        /\ RoundedSample(drawn[k])
        /\ drawn[k].d < 0 => drawn[k].v.i < 0

(* C22 amended: for a dist rule the returned value is an integer multiple  *)
(* of 1000 within 500 of the drawn sample, and it is not clamped: a sample *)
(* below -500 yields a negative returned value, and a negative sample of   *)
(* at least -500 yields 0.                                                 *)
C22_SampleRoundedNotClamped ==
    \A k \in DistDraws :
        /\ RoundedSample(drawn[k])
        /\ drawn[k].d < 0 - (Thousand \div 2) => drawn[k].v.i < 0
        /\ (drawn[k].d < 0 /\ drawn[k].d >= 0 - (Thousand \div 2)) =>
              drawn[k].v.i = 0

\* a negative sample returned as a negative price
C22_Witness ==
    \E k \in DistDraws :
        /\ drawn[k].d < 0
        /\ drawn[k].v.i < 0
        /\ drawn[k].v.i # drawn[k].d

(* C23: every table the create_all step creates (housing_market,           *)
(* transport_codes, estate_agent_codes) is dropped by the teardown step:   *)
(* after teardown the database holds no table the notebook created.        *)
C23_TeardownDropsEveryTable ==
    pc = "torn_down" => database.tables \cap MetadataTables = {}

(* C24: the foreign key the schema declares, estate_agent_codes            *)
(* .estate_agent_code references housing_market.estate_agent_code, is      *)
(* satisfied by the stored data after both populate steps: every code      *)
(* inserted into estate_agent_codes occurs as the estate_agent_code of at  *)
(* least one housing_market row, for every loaded dataset of at most 20    *)
(* rows.                                                                   *)
C24_ForeignKeyIsSatisfied ==
    (Populated /\ Len(db_df.rows) <= RowLimit) =>
        \A k \in 1..Len(database.estate_agent_codes) :
            \E i \in 1..Len(database.housing_market) :
                database.housing_market[i].estate_agent_code
                = database.estate_agent_codes[k].estate_agent_code

\* a value of the legacy schema of the form "a-b", in either order
IsRangeString(value) ==
    /\ value.t = "str"
    /\ Len(Split(value.s, "-")) = 2
    /\ \A k \in 1..2 : IsIntLiteral(Split(value.s, "-")[k])

\* the draws of a range string over the raw numbers 0 .. width
DrawsOf(range_str, width) ==
    {get_randint_from_range_str("", range_str, r).gen.d : r \in 0..width}

\* "a-b" and "b-a" never raise, hand the same bounds min(a,b) <= max(a,b)
\* to randint and return the same value for the same raw number
OrderInsensitive(a, b) ==
    LET lo == Min2(a, b)
        hi == Max2(a, b)
    IN  /\ \A r \in 0..(hi - lo) :
              LET fwd == get_randint_from_range_str("", RangeStr(a, b), r)
                  bwd == get_randint_from_range_str("", RangeStr(b, a), r)
              IN  /\ fwd.err = ""
                  /\ bwd.err = ""
                  /\ bwd.gen = fwd.gen
                  /\ fwd.gen.lo = lo
                  /\ fwd.gen.hi = hi
        /\ DrawsOf(RangeStr(a, b), hi - lo) = lo..hi
        /\ DrawsOf(RangeStr(b, a), hi - lo) = lo..hi

(* C25: in the legacy variant the range string is order-insensitive: for   *)
(* non-negative integers a and b the strings "a-b" and "b-a" give the same *)
(* set of possible draws, [min(a,b), max(a,b)], neither raises, and the    *)
(* bounds handed to the draw satisfy min <= max also when the              *)
(* Configuration lists them in reverse.                                    *)
C25_RangeStringOrderInsensitive ==
    variant = "tiered" =>
        /\ \A t \in 1..Len(housing_config) :
              \A k \in 1..Len(housing_config[t].value) :
                  LET value == housing_config[t].value[k].value
                  IN  IsRangeString(value) =>
                          OrderInsensitive(ParseInt(Split(value.s, "-")[1]),
                                           ParseInt(Split(value.s, "-")[2]))
        /\ \A k \in 1..Len(drawn) :
              drawn[k].rule = "range" =>
                  /\ drawn[k].lo <= drawn[k].hi
                  /\ drawn[k].d \in drawn[k].lo..drawn[k].hi

\* a value drawn from the reversed range string "3-1"
C25_Witness ==
    /\ variant = "tiered"
    /\ housing_config = TieredReversed
    /\ Len(drawn) = 1
    /\ drawn[1].rule = "range"
    /\ drawn[1].lo = 1
    /\ drawn[1].hi = 3

\* the values the last iteration drew above 100000 from a range string
BigRangeDraws ==
    {k \in 1..Len(drawn) :
        /\ drawn[k].rule = "range"
        /\ drawn[k].src = "legacy"
        /\ drawn[k].d > RoundAbove}

(* C26: when a range draw greater than 100000 is exactly halfway between   *)
(* two multiples of 1000 (draw mod 1000 = 500), get_randint_from_range_str *)
(* returns the multiple of 1000 whose thousands count is even (100500      *)
(* gives 100000, 101500 gives 102000); for every other draw greater than   *)
(* 100000 it returns the unique nearest multiple of 1000.                  *)
C26_TiesRoundToEvenThousand ==
    \A k \in BigRangeDraws :
        LET d == drawn[k].d
            v == drawn[k].v
        IN  /\ v.kind = "int"
            /\ v.i % Thousand = 0
            /\ IF d % Thousand = Thousand \div 2
               THEN /\ Abs(v.i - d) = Thousand \div 2
                    /\ (v.i \div Thousand) % 2 = 0
               ELSE Abs(v.i - d) < Thousand \div 2
            /\ d = 100500 => v.i = 100000
            /\ d = 101500 => v.i = 102000

\* the halfway draw 101500, returned as 102000
C26_Witness ==
    \E k \in BigRangeDraws :
        /\ drawn[k].d = 101500
        /\ drawn[k].v.i = 102000

====
